---------------------------- MODULE Spec2Model ----------------------------
(***************************************************************************)
(* A model of the utility layer of the OrangeHRM Cypress suite:            *)
(*   - ErrorHandler        (cypress/support/utils/ErrorHandler.js)         *)
(*   - PerformanceMonitor  (cypress/support/utils/TestDataManager.js,      *)
(*                          second class of the file)                     *)
(*   - TestDataManager     (the same file, first class): validateTestData  *)
(*                          and generateEmployeeData                       *)
(*   - softAssert          (cypress/support/commands.js)                   *)
(*                                                                         *)
(* JavaScript runs one callback at a time, so every action below is one    *)
(* synchronous run of code: a method call up to its return, or one         *)
(* callback (a promise reaction, a timer, a queued Cypress command).       *)
(* Operations handed to the handlers (operation, action, request          *)
(* factories) are thunks that return a promise, as their use with          *)
(* .then/.catch requires; the environment decides how each promise         *)
(* settles.  Timestamps and screenshots are not modelled.                  *)
(***************************************************************************)
EXTENDS Integers, Sequences, FiniteSets, TLC

VARIABLES
    errorLog,         \* ErrorHandler.errorLog
    retryAttempts,    \* ErrorHandler.retryAttempts
    retryDelay,       \* ErrorHandler.retryDelay
    errorThresholds,  \* ErrorHandler.errorThresholds
    alert,            \* threshold message emitted by the last logError
    metrics,          \* PerformanceMonitor.metrics
    thresholds,       \* PerformanceMonitor.thresholds
    retry,            \* closure state of the current retryOperation call
    tmo,              \* closure state of the current handleTimeoutError call
    conc,             \* state of the current monitorConcurrentRequests call
    call,             \* the method call or callback that ran last
    clock,            \* the millisecond clock Date.now() reads
    generated,        \* the employee records generateEmployeeData returned
    api,              \* state of the current apiRequest command
    rwl,              \* closure state of the current retryWithLog or
                      \* assertWithRetry command
    win               \* the page's window: the chain of console.error wrappers

vars == <<errorLog, retryAttempts, retryDelay, errorThresholds, alert,
          metrics, thresholds, retry, tmo, conc, call, clock, generated,
          api, rwl, win>>

ehVars == <<errorLog, retryAttempts, retryDelay, errorThresholds, alert>>
pmVars == <<metrics, thresholds>>
tdVars == <<clock, generated>>
cyVars == <<api, rwl, win>>

-----------------------------------------------------------------------------
(* JavaScript values.  A slot that can hold a number or undefined holds    *)
(* Num(n) or Undefined; a slot that can hold a string or undefined holds   *)
(* Str(s) or NoString.                                                     *)

Num(n) == [t |-> "number", v |-> n]
Undefined == [t |-> "undefined", v |-> 0]
Str(s) == [t |-> "string", v |-> s]
Bool(b) == [t |-> "boolean", v |-> b]
Obj(f) == [t |-> "object", v |-> f]
Null == [t |-> "null", v |-> ""]
NoString == [t |-> "undefined", v |-> ""]

IsNumber(x) == x.t = "number"

\* a >= b for a number a and a JS value b: false when b is undefined (NaN)
JsGe(a, b) == IsNumber(b) /\ a >= b.v

\* a > b for a number a and a JS value b
JsGt(a, b) == IsNumber(b) /\ a > b.v

\* a default parameter: the default replaces a missing (undefined) argument
OrDefault(arg, default) == IF arg.t = "undefined" THEN default ELSE arg

\* String(x) of a string-or-undefined value, as used for a property key
KeyOf(x) == IF x.t = "undefined" THEN "undefined" ELSE x.v

\* {}
EmptyObject == [k \in {} |-> 0]

\* { ...a, ...b }: every key of a and b, b's value where b has the key
Spread(a, b) ==
    [k \in (DOMAIN a) \cup (DOMAIN b) |-> IF k \in DOMAIN b THEN b[k] ELSE a[k]]

\* the delay setTimeout uses: a missing delay is 0
TimerMs(delay) == IF IsNumber(delay) THEN delay.v ELSE 0

NoTimer == -1

IsPrefix(s, t) == Len(s) <= Len(t) /\ SubSeq(t, 1, Len(s)) = s

-----------------------------------------------------------------------------
(* Program constants *)

DefaultRetryAttempts == 3
DefaultRetryDelay == 1000
DefaultCritical == 5
DefaultWarning == 10
DefaultInfo == 20
DefaultPageLoadTime == 5000
DefaultApiResponseTime == 3000
DefaultLoginTime == 10000
DefaultMemoryUsage == 104857600
DefaultTimeout == 10000
DefaultMaxConcurrent == 5
RecentCount == 10
DefaultTextLength == 10
DefaultRequestTimeout == 10000
DefaultMaxAttempts == 3
DefaultWaitDelay == 1000
ContentTypeJson == [h \in {"Content-Type"} |-> Str("application/json")]

ErrorThresholdKeys == {"critical", "warning", "info"}
ThresholdKeys == {"pageLoadTime", "apiResponseTime", "loginTime", "memoryUsage"}

-----------------------------------------------------------------------------
(* Bounds of the model *)

MaxLog == 3          \* error records kept while the handlers run
MaxLogged == 2       \* error records kept while every handler may run
MaxStatLog == 11     \* error records kept while statistics are computed
MaxLabelled == 1     \* of these, records logged with a context label
MaxSamples == 1      \* samples per performance sequence
MaxRetries == 2      \* largest maxRetries argument
MaxDelay == 1        \* largest delay / timeout argument
MaxInvocations == 4  \* cap on attempts when maxRetries is undefined
MaxRequests == 5     \* largest list of request factories
MaxConcurrent == 2   \* largest maxConcurrent argument
MaxKeys == 2         \* keys of the objects and schemas that are validated
MaxGenerated == 3    \* employee records generated
MaxClock == 3        \* milliseconds the clock moves on
MaxMatches == 2      \* elements a selector matches
MaxTextLength == 3   \* largest text length asked for through options
MaxWrappers == 2     \* installations of the console.error wrapper

Contexts == {"", "login"}
ErrorMessages == {"e1", "e2"}
Results == {"r1", "r2"}

-----------------------------------------------------------------------------
(* ErrorHandler: constructor *)

ErrorHandlerInit ==
    /\ errorLog = <<>>
    /\ retryAttempts = Num(DefaultRetryAttempts)
    /\ retryDelay = Num(DefaultRetryDelay)
    /\ errorThresholds = [critical |-> Num(DefaultCritical),
                          warning |-> Num(DefaultWarning),
                          info |-> Num(DefaultInfo)]
    /\ alert = "none"

(* ErrorHandler.logError: push, then the threshold check *)

logError_Unshift(log, error) == <<error>> \o log

logError(log, error) == Append(log, error)

ThresholdMessage_WarningFirst(errorCount, th) ==
    IF JsGe(errorCount, th["warning"]) THEN "warning"
    ELSE IF JsGe(errorCount, th["critical"]) THEN "critical"
    ELSE "none"

ThresholdMessage(errorCount, th) ==
    IF JsGe(errorCount, th["critical"]) THEN "critical"
    ELSE IF JsGe(errorCount, th["warning"]) THEN "warning"
    ELSE "none"

\* this.logError(error) as a state change
LogError(error) ==
    /\ errorLog' = logError(errorLog, error)
    /\ alert' = ThresholdMessage(Len(errorLog'), errorThresholds)

ErrorRecord(type, context) == [type |-> type, context |-> context]

\* values handed to and returned by the calls: none, a response or an error
\* that carries a status code
NoValue == [t |-> "none"]
Response(status) == [t |-> "response", status |-> status]
ErrorWith(status) == [t |-> "error", status |-> status]

\* what a method call or callback did: its name, how it ended, whether it
\* appended an error record, which settings the caller supplied, whether
\* it reported a threshold as exceeded, the value it was given and the value
\* it returned or threw
Called(op, outcome, logged, supplied) ==
    call' = [op |-> op, outcome |-> outcome, logged |-> logged,
             supplied |-> supplied, warned |-> FALSE,
             arg |-> NoValue, result |-> NoValue]

\* the same for a call that is given a value and returns or throws one
CalledWith(op, outcome, logged, arg, result) ==
    call' = [op |-> op, outcome |-> outcome, logged |-> logged,
             supplied |-> {}, warned |-> FALSE,
             arg |-> arg, result |-> result]

-----------------------------------------------------------------------------
(* ErrorHandler: the synchronous handlers *)

\* $body.find(selector).length === 0
NoneMatch_AtMostOne(matches) == matches <= 1

NoneMatch(matches) == matches = 0

\* handleElementNotFound(selector, context = ''); matches: the number of
\* elements of the body the selector matches; the message of the Error
\* thrown is kept as the parts of its template string
HandleElementNotFound(selector, matches, contextArg) ==
    LET context == OrDefault(contextArg, Str("")) IN
    /\ IF NoneMatch(matches)
       THEN /\ LogError(ErrorRecord("ElementNotFound", context))
            /\ CalledWith("handleElementNotFound", "failed", TRUE,
                          [t |-> "selector", selector |-> selector,
                           matches |-> matches],
                          [t |-> "Error",
                           message |-> <<"Element not found: ", selector,
                                         " in context: ", context.v>>])
       ELSE /\ UNCHANGED <<errorLog, alert>>
            /\ CalledWith("handleElementNotFound", "returned", FALSE,
                          [t |-> "selector", selector |-> selector,
                           matches |-> matches],
                          NoValue)
    /\ UNCHANGED <<retryAttempts, retryDelay, errorThresholds, pmVars,
                   retry, tmo, conc, tdVars, cyVars>>

\* handleAssertionError(assertion, expected, actual, context = '')
HandleAssertionError(contextArg) ==
    LET context == OrDefault(contextArg, Str("")) IN
    /\ LogError(ErrorRecord("AssertionError", context))
    /\ Called("handleAssertionError", "failed", TRUE, {})
    /\ UNCHANGED <<retryAttempts, retryDelay, errorThresholds, pmVars,
                   retry, tmo, conc, tdVars, cyVars>>

\* response.status >= 400
IsErrorStatus_Above(status) == status > 400

IsErrorStatus(status) == status >= 400

\* handleApiError(response, context = ''); status is response.status; the
\* Error thrown is a new one whose message holds the status
HandleApiError(status, contextArg) ==
    LET context == OrDefault(contextArg, Str("")) IN
    /\ IF IsErrorStatus(status)
       THEN /\ LogError(ErrorRecord("ApiError", context))
            /\ CalledWith("handleApiError", "failed", TRUE,
                          Response(status), [t |-> "Error", status |-> status])
       ELSE /\ UNCHANGED <<errorLog, alert>>
            /\ CalledWith("handleApiError", "returned", FALSE,
                          Response(status), Response(status))
    /\ UNCHANGED <<retryAttempts, retryDelay, errorThresholds, pmVars,
                   retry, tmo, conc, tdVars, cyVars>>

\* handleNetworkError(request, context = ''): the reaction request.catch
\* installs, once the request has settled; rejected: the request rejected,
\* with an error that carries status; otherwise it fulfilled with a response
\* that carries status, the reaction does not run and the promise returned
\* fulfils with that response
HandleNetworkError(rejected, status, contextArg) ==
    LET context == OrDefault(contextArg, Str("")) IN
    /\ IF rejected
       THEN /\ LogError(ErrorRecord("NetworkError", context))
            /\ CalledWith("handleNetworkError", "failed", TRUE,
                          ErrorWith(status), ErrorWith(status))
       ELSE /\ UNCHANGED <<errorLog, alert>>
            /\ CalledWith("handleNetworkError", "returned", FALSE,
                          Response(status), Response(status))
    /\ UNCHANGED <<retryAttempts, retryDelay, errorThresholds, pmVars,
                   retry, tmo, conc, tdVars, cyVars>>

\* handlePageLoadError(url, context = ''): the reaction to the visit
HandlePageLoadError(rejected, contextArg) ==
    LET context == OrDefault(contextArg, Str("")) IN
    /\ IF rejected
       THEN /\ LogError(ErrorRecord("PageLoadError", context))
            /\ Called("handlePageLoadError", "failed", TRUE, {})
       ELSE /\ UNCHANGED <<errorLog, alert>>
            /\ Called("handlePageLoadError", "returned", FALSE, {})
    /\ UNCHANGED <<retryAttempts, retryDelay, errorThresholds, pmVars,
                   retry, tmo, conc, tdVars, cyVars>>

\* clearErrorLog()
ClearErrorLog ==
    /\ errorLog' = <<>>
    /\ Called("clearErrorLog", "returned", FALSE, {})
    /\ UNCHANGED <<retryAttempts, retryDelay, errorThresholds, alert, pmVars,
                   retry, tmo, conc, tdVars, cyVars>>

\* setErrorThresholds(thresholds)
SetErrorThresholds(newThresholds) ==
    /\ errorThresholds' = Spread(errorThresholds, newThresholds)
    /\ Called("setErrorThresholds", "returned", FALSE, DOMAIN newThresholds)
    /\ UNCHANGED <<errorLog, retryAttempts, retryDelay, alert, pmVars,
                   retry, tmo, conc, tdVars, cyVars>>

\* the settings a setRetryConfiguration call supplies
SuppliedRetry(attempts, delay) ==
    {k \in {"retryAttempts"} : attempts.t # "undefined"}
        \cup {k \in {"retryDelay"} : delay.t # "undefined"}

\* setRetryConfiguration(attempts, delay)
SetRetryConfiguration(attempts, delay) ==
    /\ retryAttempts' = attempts
    /\ retryDelay' = delay
    /\ Called("setRetryConfiguration", "returned", FALSE,
              SuppliedRetry(attempts, delay))
    /\ UNCHANGED <<errorLog, errorThresholds, alert, pmVars, retry, tmo, conc,
                   tdVars, cyVars>>

-----------------------------------------------------------------------------
(* ErrorHandler.getErrorStatistics *)

\* counts[key] = (counts[key] || 0) + 1
CountKey(counts, key) ==
    Spread(counts,
           [k \in {key} |-> IF key \in DOMAIN counts THEN counts[key] + 1 ELSE 1])

RECURSIVE CountTypes(_, _)
CountTypes(log, counts) ==
    IF log = <<>> THEN counts
    ELSE CountTypes(Tail(log), CountKey(counts, Head(log).type))

RECURSIVE CountContexts(_, _)
CountContexts(log, counts) ==
    IF log = <<>> THEN counts
    ELSE CountContexts(Tail(log), CountKey(counts, KeyOf(Head(log).context)))

\* log.slice(-n)
SliceLast_OffByOne(log, n) ==
    IF Len(log) <= n - 1 THEN log ELSE SubSeq(log, Len(log) - n + 2, Len(log))

SliceLast(log, n) ==
    IF Len(log) <= n THEN log ELSE SubSeq(log, Len(log) - n + 1, Len(log))

getErrorStatistics(log) ==
    [totalErrors |-> Len(log),
     errorTypes |-> CountTypes(log, EmptyObject),
     errorContexts |-> CountContexts(log, EmptyObject),
     recentErrors |-> SliceLast(log, RecentCount)]

-----------------------------------------------------------------------------
(* ErrorHandler.retryOperation(operation, maxRetries, delay)               *)
(*                                                                         *)
(* retry holds the closure of the call: attempts is the code's counter;    *)
(* invoked counts the calls of operation(); pending is the set of attempts *)
(* whose promise has not settled; timer is the time left on the            *)
(* setTimeout(attempt, delay) timer; waited is the time passed since it    *)
(* was set; trace lists what the call did, in order.                       *)

RetryIdle ==
    [pc |-> "idle", maxRetries |-> Undefined, delay |-> Undefined,
     attempts |-> 0, invoked |-> 0, pending |-> {}, timer |-> NoTimer,
     waited |-> 0, outcome |-> "pending", value |-> "",
     message |-> [count |-> Undefined, error |-> ""],
     lastError |-> "", logged |-> 0, trace |-> <<>>]

Event(ev, k, waited) == [ev |-> ev, k |-> k, waited |-> waited]

Settle_Never(r, outcome, value, message) == r

\* resolve / reject of a promise: only the first call settles it
Settle(r, outcome, value, message) ==
    IF r.outcome = "pending"
    THEN [r EXCEPT !.outcome = outcome, !.value = value, !.message = message]
    ELSE r

\* the inner function attempt(): count, log, invoke operation()
Attempt(r) ==
    [r EXCEPT !.attempts = @ + 1,
              !.invoked = @ + 1,
              !.pending = @ \cup {r.attempts + 1},
              !.timer = NoTimer,
              !.pc = "inflight",
              !.trace = Append(@, Event("start", r.attempts + 1, r.waited))]

\* the delay handed to setTimeout(attempt, delay)
RetryTimerDelay_Zero(delay) == 0

RetryTimerDelay(delay) == TimerMs(delay)

\* the number the rejection message reports: `after ${maxRetries} attempts`
ReportedAttempts(r) == r.maxRetries

\* the call itself: the promise executor runs attempt() once
RetryOperation(maxRetriesArg, delayArg) ==
    /\ retry.pending = {}
    /\ retry.timer = NoTimer
    /\ retry' = Attempt([RetryIdle EXCEPT
                            !.maxRetries = OrDefault(maxRetriesArg, retryAttempts),
                            !.delay = OrDefault(delayArg, retryDelay)])
    /\ Called("retryOperation", "returned", FALSE, {})
    /\ UNCHANGED <<ehVars, pmVars, tmo, conc, tdVars, cyVars>>

\* operation().then(...): attempt k fulfilled with result
OperationFulfils(k, result) ==
    /\ k \in retry.pending
    /\ retry' = [Settle(retry, "resolved", result, retry.message) EXCEPT
                    !.pending = @ \ {k},
                    !.pc = "settled",
                    !.trace = Append(@, Event("fulfilled", k, 0))]
    /\ CalledWith("retryOperation.then", "returned", FALSE,
                  [t |-> "result", v |-> result], NoValue)
    /\ UNCHANGED <<ehVars, pmVars, tmo, conc, tdVars, cyVars>>

\* operation()...catch(...): attempt k rejected with error
OperationRejects(k, error) ==
    /\ k \in retry.pending
    /\ IF JsGe(retry.attempts, retry.maxRetries)
       THEN /\ LogError([type |-> "RetryExhausted", context |-> NoString,
                         attempts |-> retry.attempts,
                         maxRetries |-> retry.maxRetries,
                         originalError |-> error])
            /\ retry' = [Settle(retry, "rejected", "",
                                [count |-> ReportedAttempts(retry),
                                 error |-> error]) EXCEPT
                            !.pending = @ \ {k},
                            !.pc = "settled",
                            !.lastError = error,
                            !.logged = @ + 1,
                            !.trace = Append(@, Event("rejected", k, 0))]
            /\ Called("retryOperation.catch", "returned", TRUE, {})
       ELSE /\ retry' = [retry EXCEPT
                            !.pending = @ \ {k},
                            !.pc = "waiting",
                            !.lastError = error,
                            !.timer = RetryTimerDelay(retry.delay),
                            !.waited = 0,
                            !.trace = Append(Append(@, Event("rejected", k, 0)),
                                             Event("retryInfo", k, 0))]
            /\ Called("retryOperation.catch", "returned", FALSE, {})
            /\ UNCHANGED <<errorLog, alert>>
    /\ UNCHANGED <<retryAttempts, retryDelay, errorThresholds, pmVars,
                   tmo, conc, tdVars, cyVars>>

\* the timer set by setTimeout(attempt, delay) fires: attempt() runs again
RetryTimerFires ==
    /\ retry.timer = 0
    /\ retry.attempts < MaxInvocations
    /\ retry' = Attempt(retry)
    /\ Called("retryOperation.timer", "returned", FALSE, {})
    /\ UNCHANGED <<ehVars, pmVars, tmo, conc, tdVars, cyVars>>

-----------------------------------------------------------------------------
(* ErrorHandler.handleTimeoutError(action, timeout, context)               *)
(*                                                                         *)
(* tmo holds the closure of the call: timer is the time left on the        *)
(* timeout timer (NoTimer once fired or cleared); action is the state of   *)
(* the promise action() returned and settled what it settled with; first   *)
(* is the callback that ran first; outcome, value and reason are the       *)
(* state of the returned promise; logged counts the records the call       *)
(* appended to the error log, base is the length of the log at the call.   *)

TimeoutIdle ==
    [timer |-> NoTimer, context |-> Str(""), action |-> "none",
     settled |-> "", first |-> "none", outcome |-> "pending", value |-> "",
     reason |-> "", logged |-> 0, base |-> 0]

SettleTimeout(t, outcome, value, reason) ==
    IF t.outcome = "pending"
    THEN [t EXCEPT !.outcome = outcome, !.value = value, !.reason = reason]
    ELSE t

First(t, who) == IF t.first = "none" THEN who ELSE t.first

\* clearTimeout(timeoutId)
ClearTimeout_Keep(timer) == timer

ClearTimeout(timer) == NoTimer

\* the call itself: the executor sets the timer and calls action()
HandleTimeoutError(timeoutArg, contextArg) ==
    /\ tmo.action # "pending"
    /\ tmo.timer = NoTimer
    /\ tmo' = [TimeoutIdle EXCEPT
                  !.timer = TimerMs(OrDefault(timeoutArg, Num(DefaultTimeout))),
                  !.context = OrDefault(contextArg, Str("")),
                  !.action = "pending",
                  !.base = Len(errorLog)]
    /\ Called("handleTimeoutError", "returned", FALSE, {})
    /\ UNCHANGED <<ehVars, pmVars, retry, conc, tdVars, cyVars>>

\* the timeout timer fires
TimeoutFires ==
    /\ tmo.timer = 0
    /\ LogError(ErrorRecord("TimeoutError", tmo.context))
    /\ tmo' = [SettleTimeout(tmo, "rejected", "", "timeout") EXCEPT
                  !.timer = NoTimer,
                  !.first = First(tmo, "timer"),
                  !.logged = @ + 1]
    /\ Called("handleTimeoutError.timer", "returned", TRUE, {})
    /\ UNCHANGED <<retryAttempts, retryDelay, errorThresholds, pmVars,
                   retry, conc, tdVars, cyVars>>

\* action().then(...): the action fulfilled with result
ActionFulfils(result) ==
    /\ tmo.action = "pending"
    /\ tmo' = [SettleTimeout(tmo, "resolved", result, "") EXCEPT
                  !.timer = ClearTimeout(tmo.timer),
                  !.action = "fulfilled",
                  !.settled = result,
                  !.first = First(tmo, "fulfilled")]
    /\ Called("handleTimeoutError.then", "returned", FALSE, {})
    /\ UNCHANGED <<ehVars, pmVars, retry, conc, tdVars, cyVars>>

\* action()...catch(...): the action rejected with error
ActionRejects(error) ==
    /\ tmo.action = "pending"
    /\ tmo' = [SettleTimeout(tmo, "rejected", "", error) EXCEPT
                  !.timer = ClearTimeout(tmo.timer),
                  !.action = "rejected",
                  !.settled = error,
                  !.first = First(tmo, "rejected")]
    /\ Called("handleTimeoutError.catch", "returned", FALSE, {})
    /\ UNCHANGED <<ehVars, pmVars, retry, conc, tdVars, cyVars>>

-----------------------------------------------------------------------------
(* Time: the clock moves on to the next timer that is due *)

RunningTimers == {t \in {retry.timer, tmo.timer} : t > 0}

NextDue == CHOOSE d \in RunningTimers : \A e \in RunningTimers : d <= e

Elapse(timer, d) == IF timer > 0 THEN timer - d ELSE timer

Tick ==
    /\ RunningTimers # {}
    /\ retry' = [retry EXCEPT !.timer = Elapse(@, NextDue),
                              !.waited = IF retry.timer # NoTimer
                                         THEN @ + NextDue ELSE @]
    /\ tmo' = [tmo EXCEPT !.timer = Elapse(@, NextDue)]
    /\ UNCHANGED <<ehVars, pmVars, conc, call, tdVars, cyVars>>

-----------------------------------------------------------------------------
(* PerformanceMonitor *)

NoMetrics ==
    [responseTimes |-> <<>>, pageLoadTimes |-> <<>>, apiCallTimes |-> <<>>,
     memoryUsage |-> <<>>, errors |-> <<>>]

PerformanceMonitorInit ==
    /\ metrics = NoMetrics
    /\ thresholds = [pageLoadTime |-> Num(DefaultPageLoadTime),
                     apiResponseTime |-> Num(DefaultApiResponseTime),
                     loginTime |-> Num(DefaultLoginTime),
                     memoryUsage |-> Num(DefaultMemoryUsage)]

\* array.push(sample)
Push_Twice(samples, sample) == Append(Append(samples, sample), sample)

Push(samples, sample) == Append(samples, sample)

\* a monitor's callback ran: how it ended and whether it warned
Monitored(op, outcome, warned) ==
    call' = [op |-> op, outcome |-> outcome, logged |-> FALSE,
             supplied |-> {}, warned |-> warned,
             arg |-> NoValue, result |-> NoValue]

\* monitorPageLoad(): the load listener runs after loadTime ms
MonitorPageLoad(loadTime) ==
    /\ metrics' = [metrics EXCEPT !.pageLoadTimes = Push(@, loadTime)]
    /\ Monitored("monitorPageLoad", "returned",
                 JsGt(loadTime, thresholds["pageLoadTime"]))
    /\ UNCHANGED <<ehVars, thresholds, retry, tmo, conc, tdVars, cyVars>>

\* a monitor's callback that is given a value and returns or throws one
MonitoredWith(op, outcome, warned, arg, result) ==
    call' = [op |-> op, outcome |-> outcome, logged |-> FALSE,
             supplied |-> {}, warned |-> warned,
             arg |-> arg, result |-> result]

\* monitorApiCall(apiCall, endpoint): apiCall settled after responseTime ms,
\* fulfilled with a response that carries status or rejected with an error
\* that carries it; the reaction installed by apiCall.then runs only when
\* it fulfilled
MonitorApiCall(fulfilled, endpoint, responseTime, status) ==
    /\ IF fulfilled
       THEN /\ metrics' = [metrics EXCEPT !.apiCallTimes =
                              Push(@, [endpoint |-> endpoint,
                                       responseTime |-> responseTime,
                                       status |-> status])]
            /\ MonitoredWith("monitorApiCall", "returned",
                             JsGt(responseTime, thresholds["apiResponseTime"]),
                             Response(status),
                             [response |-> Response(status),
                              responseTime |-> responseTime])
       ELSE /\ UNCHANGED metrics
            /\ MonitoredWith("monitorApiCall", "failed", FALSE,
                             ErrorWith(status), ErrorWith(status))
    /\ UNCHANGED <<ehVars, thresholds, retry, tmo, conc, tdVars, cyVars>>

\* monitorUserInteraction(actionName, actionFn): actionFn() fulfilled
MonitorUserInteraction(actionName, interactionTime) ==
    /\ metrics' = [metrics EXCEPT !.responseTimes =
                      Push(@, [action |-> actionName,
                               duration |-> interactionTime])]
    /\ Monitored("monitorUserInteraction", "returned", FALSE)
    /\ UNCHANGED <<ehVars, thresholds, retry, tmo, conc, tdVars, cyVars>>

\* monitorLoginPerformance(username, password): the login fulfilled
MonitorLoginPerformance(loginTime) ==
    /\ metrics' = [metrics EXCEPT !.responseTimes =
                      Push(@, [action |-> "login", duration |-> loginTime])]
    /\ Monitored("monitorLoginPerformance", "returned",
                 JsGt(loginTime, thresholds["loginTime"]))
    /\ UNCHANGED <<ehVars, thresholds, retry, tmo, conc, tdVars, cyVars>>

\* monitorMemoryUsage(): available: the window exposes performance.memory
MonitorMemoryUsage(available, used) ==
    /\ IF available
       THEN /\ metrics' = [metrics EXCEPT !.memoryUsage =
                              Push(@, [used |-> used])]
            /\ Monitored("monitorMemoryUsage", "returned",
                         JsGt(used, thresholds["memoryUsage"]))
       ELSE /\ UNCHANGED metrics
            /\ Monitored("monitorMemoryUsage", "returned", FALSE)
    /\ UNCHANGED <<ehVars, thresholds, retry, tmo, conc, tdVars, cyVars>>

\* setThresholds(newThresholds)
SetThresholds(newThresholds) ==
    /\ thresholds' = Spread(thresholds, newThresholds)
    /\ Called("setThresholds", "returned", FALSE, DOMAIN newThresholds)
    /\ UNCHANGED <<ehVars, metrics, retry, tmo, conc, tdVars, cyVars>>

\* the number of samples held in all the sequences
SampleCount(m) ==
    Len(m.responseTimes) + Len(m.pageLoadTimes) + Len(m.apiCallTimes)
        + Len(m.memoryUsage) + Len(m.errors)

\* resetMetrics(); the call record keeps how many samples it dropped
ResetMetrics ==
    /\ metrics' = NoMetrics
    /\ CalledWith("resetMetrics", "returned", FALSE,
                  [t |-> "metrics", samples |-> SampleCount(metrics)], NoValue)
    /\ UNCHANGED <<ehVars, thresholds, retry, tmo, conc, tdVars, cyVars>>

-----------------------------------------------------------------------------
(* PerformanceMonitor.generatePerformanceReport                            *)
(*                                                                         *)
(* An average is the exact quotient num / den; den = 0 stands for NaN.     *)

RECURSIVE SeqSum(_)
SeqSum(numbers) ==
    IF numbers = <<>> THEN 0 ELSE Head(numbers) + SeqSum(Tail(numbers))

\* calculateAverage(numbers)
calculateAverage_NoGuard(numbers) ==
    [num |-> SeqSum(numbers), den |-> Len(numbers)]

calculateAverage(numbers) ==
    IF Len(numbers) = 0 THEN [num |-> 0, den |-> 1]
    ELSE [num |-> SeqSum(numbers), den |-> Len(numbers)]

\* samples.map(m => m.responseTime), .duration, .used
ResponseTimesOf(samples) == [i \in 1 .. Len(samples) |-> samples[i].responseTime]
DurationsOf(samples) == [i \in 1 .. Len(samples) |-> samples[i].duration]
UsedOf(samples) == [i \in 1 .. Len(samples) |-> samples[i].used]

\* the forEach over pageLoadTimes, from position i (index i - 1) onwards
RECURSIVE PageLoadViolations(_, _, _)
PageLoadViolations(times, th, i) ==
    IF i > Len(times) THEN <<>>
    ELSE (IF JsGt(times[i], th["pageLoadTime"])
          THEN <<[type |-> "pageLoad", index |-> i - 1, actual |-> times[i],
                  threshold |-> th["pageLoadTime"]]>>
          ELSE <<>>) \o PageLoadViolations(times, th, i + 1)

\* the forEach over apiCallTimes
RECURSIVE ApiResponseViolations(_, _, _)
ApiResponseViolations(samples, th, i) ==
    IF i > Len(samples) THEN <<>>
    ELSE (IF JsGt(samples[i].responseTime, th["apiResponseTime"])
          THEN <<[type |-> "apiResponse", endpoint |-> samples[i].endpoint,
                  index |-> i - 1, actual |-> samples[i].responseTime,
                  threshold |-> th["apiResponseTime"]]>>
          ELSE <<>>) \o ApiResponseViolations(samples, th, i + 1)

\* findThresholdViolations()
findThresholdViolations(m, th) ==
    PageLoadViolations(m.pageLoadTimes, th, 1)
        \o ApiResponseViolations(m.apiCallTimes, th, 1)

\* avg > limit * 0.8 for an average and a JS value, in whole numbers:
\* num / den > limit * 4 / 5
AboveEightTenths(avg, limit) ==
    /\ IsNumber(limit)
    /\ avg.den > 0
    /\ avg.num * 5 > limit.v * 4 * avg.den

\* generateRecommendations()
generateRecommendations(m, th) ==
    (IF AboveEightTenths(calculateAverage(m.pageLoadTimes), th["pageLoadTime"])
     THEN <<"Consider optimizing page load performance">> ELSE <<>>)
    \o (IF AboveEightTenths(calculateAverage(ResponseTimesOf(m.apiCallTimes)),
                            th["apiResponseTime"])
        THEN <<"Consider optimizing API response times">> ELSE <<>>)
    \o (IF /\ Len(m.memoryUsage) > 0
           /\ AboveEightTenths(calculateAverage(UsedOf(m.memoryUsage)),
                               th["memoryUsage"])
        THEN <<"Consider optimizing memory usage">> ELSE <<>>)

\* the report generatePerformanceReport() builds
generatePerformanceReport(m, th) ==
    [summary |-> [totalPageLoads |-> Len(m.pageLoadTimes),
                  totalApiCalls |-> Len(m.apiCallTimes),
                  totalUserInteractions |-> Len(m.responseTimes),
                  totalMemoryChecks |-> Len(m.memoryUsage)],
     averages |-> [pageLoadTime |-> calculateAverage(m.pageLoadTimes),
                   apiResponseTime |->
                       calculateAverage(ResponseTimesOf(m.apiCallTimes)),
                   userInteractionTime |->
                       calculateAverage(DurationsOf(m.responseTimes))],
     thresholds |-> th,
     violations |-> findThresholdViolations(m, th),
     recommendations |-> generateRecommendations(m, th)]

\* generatePerformanceReport(): the report is logged and returned
GeneratePerformanceReport ==
    /\ CalledWith("generatePerformanceReport", "returned", FALSE, NoValue,
                  [t |-> "report",
                   report |-> generatePerformanceReport(metrics, thresholds)])
    /\ UNCHANGED <<ehVars, pmVars, retry, tmo, conc, tdVars, cyVars>>

-----------------------------------------------------------------------------
(* PerformanceMonitor.monitorConcurrentRequests(requests, maxConcurrent)   *)
(*                                                                         *)
(* conc holds the call: n is requests.length, i the loop index, ops the    *)
(* state of each request's promise, queue the cy.wrap(Promise.all(...))    *)
(* commands the loop has enqueued (each the batch <<first, last>> it       *)
(* waits for), results the results array, as indexes of the requests;     *)
(* batches lists every batch the loop has sliced and calls counts the      *)
(* invocations of each factory.                                            *)

ConcIdle ==
    [pc |-> "idle", n |-> 0, maxConcurrent |-> 1, i |-> 0, iterations |-> 0,
     ops |-> <<>>, queue |-> <<>>, results |-> <<>>, batches |-> <<>>,
     calls |-> <<>>]

Min(a, b) == IF a <= b THEN a ELSE b

Batch(b) == b[1] .. b[2]

RECURSIVE Interval(_, _)
Interval(lo, hi) == IF lo > hi THEN <<>> ELSE <<lo>> \o Interval(lo + 1, hi)

\* requests.slice(i, i + maxConcurrent): the index after the last one taken
SliceEnd_Inclusive(i, count, n) == Min(i + count + 1, n)

SliceEnd(i, count, n) == Min(i + count, n)

NextIndex_One(i, count) == i + 1

\* the loop's update: i += maxConcurrent
NextIndex(i, count) == i + count

\* the call: startTime and results are set, the for loop is entered
MonitorConcurrentRequests(n, maxConcurrentArg) ==
    /\ conc.pc \in {"idle", "done", "failed"}
    /\ conc' = [ConcIdle EXCEPT
                   !.pc = "loop",
                   !.n = n,
                   !.maxConcurrent =
                       OrDefault(maxConcurrentArg, Num(DefaultMaxConcurrent)).v,
                   !.ops = [j \in 1 .. n |-> "notstarted"],
                   !.calls = [j \in 1 .. n |-> 0]]
    /\ Called("monitorConcurrentRequests", "returned", FALSE, {})
    /\ UNCHANGED <<ehVars, pmVars, retry, tmo, tdVars, cyVars>>

\* one iteration of the for loop: slice the batch, invoke its factories,
\* enqueue the command that waits for them
ConcLoopStep ==
    /\ conc.pc = "loop"
    /\ conc.i < conc.n
    /\ LET batch == <<conc.i + 1,
                       SliceEnd(conc.i, conc.maxConcurrent, conc.n)>> IN
       conc' = [conc EXCEPT
                   !.ops = [j \in 1 .. conc.n |->
                               IF j \in Batch(batch) THEN "pending" ELSE @[j]],
                   !.calls = [j \in 1 .. conc.n |->
                                 IF j \in Batch(batch) THEN @[j] + 1 ELSE @[j]],
                   !.queue = Append(@, batch),
                   !.batches = Append(@, batch),
                   !.i = NextIndex(@, conc.maxConcurrent),
                   !.iterations = @ + 1]
    /\ UNCHANGED <<ehVars, pmVars, retry, tmo, call, tdVars, cyVars>>

\* the loop condition fails: the final cy.wrap(results) is enqueued
ConcLoopExit ==
    /\ conc.pc = "loop"
    /\ conc.i >= conc.n
    /\ conc' = [conc EXCEPT !.pc = "queue"]
    /\ UNCHANGED <<ehVars, pmVars, retry, tmo, call, tdVars, cyVars>>

\* the promise of request j settles
RequestSettles(j, fulfilled) ==
    /\ j \in 1 .. conc.n
    /\ conc.ops[j] = "pending"
    /\ conc' = [conc EXCEPT
                   !.ops[j] = IF fulfilled THEN "fulfilled" ELSE "rejected"]
    /\ UNCHANGED <<ehVars, pmVars, retry, tmo, call, tdVars, cyVars>>

\* the command at the head of the queue: Promise.all of its batch fulfilled
ConcBatchDone ==
    /\ conc.pc = "queue"
    /\ conc.queue # <<>>
    /\ \A j \in Batch(Head(conc.queue)) : conc.ops[j] = "fulfilled"
    /\ conc' = [conc EXCEPT
                   !.results = @ \o Interval(Head(conc.queue)[1],
                                             Head(conc.queue)[2]),
                   !.queue = Tail(@)]
    /\ UNCHANGED <<ehVars, pmVars, retry, tmo, call, tdVars, cyVars>>

\* the command at the head of the queue: Promise.all of its batch rejected
ConcBatchFails ==
    /\ conc.pc = "queue"
    /\ conc.queue # <<>>
    /\ \E j \in Batch(Head(conc.queue)) : conc.ops[j] = "rejected"
    /\ conc' = [conc EXCEPT !.pc = "failed"]
    /\ Called("monitorConcurrentRequests.wrap", "failed", FALSE, {})
    /\ UNCHANGED <<ehVars, pmVars, retry, tmo, tdVars, cyVars>>

\* the final command: the totals are computed and the results returned
ConcFinish ==
    /\ conc.pc = "queue"
    /\ conc.queue = <<>>
    /\ conc' = [conc EXCEPT !.pc = "done"]
    /\ Called("monitorConcurrentRequests.then", "returned", FALSE, {})
    /\ UNCHANGED <<ehVars, pmVars, retry, tmo, tdVars, cyVars>>

-----------------------------------------------------------------------------
(* TestDataManager (cypress/support/utils/TestDataManager.js, first class) *)

\* !!x for a number, a string, a boolean or undefined
Truthy(x) ==
    CASE x.t = "number" -> x.v # 0
      [] x.t = "string" -> x.v # ""
      [] x.t = "boolean" -> x.v
      [] x.t = "object" -> TRUE
      [] OTHER -> FALSE

\* typeof x
TypeOf(x) == x.t

\* data[key]: undefined when the object has no such key
Get(data, key) == IF key \in DOMAIN data THEN data[key] ELSE Undefined

DigitChars == <<"0", "1", "2", "3", "4", "5", "6", "7", "8", "9">>

\* the decimal digits of a natural number, as a template string writes them
RECURSIVE NumberToString(_)
NumberToString(n) ==
    IF n < 10 THEN DigitChars[n + 1]
    ELSE NumberToString(n \div 10) \o DigitChars[(n % 10) + 1]

\* String(x), as a template string and RegExp.test convert their operand
StringOf(x) ==
    CASE x.t = "number" -> NumberToString(x.v)
      [] x.t = "string" -> x.v
      [] x.t = "boolean" -> IF x.v THEN "true" ELSE "false"
      [] OTHER -> "undefined"

\* the strings of the model that /^[a-z]+$/ matches
LowercaseWords == {"x", "true", "false", "undefined"}

\* pattern.test(value) for the pattern /^[a-z]+$/
PatternTest(pattern, value) ==
    pattern = "^[a-z]+$" /\ StringOf(value) \in LowercaseWords

\* the errors the forEach over Object.keys(schema) collects; schema is the
\* sequence of its entries in key order, each with the key and its rule
RECURSIVE ValidationErrors(_, _)
ValidationErrors(data, schema) ==
    IF schema = <<>> THEN <<>>
    ELSE LET rule == Head(schema)
             value == Get(data, rule.key)
         IN (IF rule.required /\ ~Truthy(value)
             THEN <<[kind |-> "Missing required field", key |-> rule.key]>>
             ELSE <<>>)
            \o (IF /\ Truthy(value)
                   /\ Truthy(rule.type)
                   /\ TypeOf(value) # rule.type.v
                THEN <<[kind |-> "Invalid type", key |-> rule.key,
                        expected |-> rule.type.v, got |-> TypeOf(value)]>>
                ELSE <<>>)
            \o (IF /\ Truthy(value)
                   /\ Truthy(rule.pattern)
                   /\ ~PatternTest(rule.pattern.v, value)
                THEN <<[kind |-> "Invalid format", key |-> rule.key,
                        value |-> StringOf(value)]>>
                ELSE <<>>)
            \o ValidationErrors(data, Tail(schema))

\* validateTestData(data, schema): what the call throws or returns; the
\* message of the Error is the errors joined, kept here as their sequence
validateTestData(data, schema) ==
    LET errors == ValidationErrors(data, schema) IN
    IF Len(errors) > 0
    THEN [outcome |-> "failed", value |-> [t |-> "Error", errors |-> errors]]
    ELSE [outcome |-> "returned", value |-> [t |-> "boolean", v |-> TRUE]]

\* a call of validateTestData; data is read and never assigned, so the
\* object the caller holds afterwards is data
ValidateTestData(data, schema) ==
    /\ CalledWith("validateTestData", validateTestData(data, schema).outcome,
                  FALSE,
                  [t |-> "validateTestData", data |-> data, schema |-> schema],
                  validateTestData(data, schema).value)
    /\ UNCHANGED <<ehVars, pmVars, retry, tmo, conc, tdVars, cyVars>>

\* generateEmployeeData(): the fields built from the timestamp
generateEmployeeData(timestamp) ==
    [firstName |-> "Test" \o NumberToString(timestamp),
     employeeId |-> "EMP" \o NumberToString(timestamp),
     otherId |-> "OTH" \o NumberToString(timestamp),
     licenseNo |-> "LIC" \o NumberToString(timestamp),
     workEmail |-> "test.employee" \o NumberToString(timestamp)
                       \o "@company.com"]

\* a call of generateEmployeeData: const timestamp = Date.now()
GenerateEmployeeData ==
    /\ generated' = Append(generated, generateEmployeeData(clock))
    /\ Called("generateEmployeeData", "returned", FALSE, {})
    /\ UNCHANGED <<ehVars, pmVars, retry, tmo, conc, clock, cyVars>>

\* the kinds with a generator in the registry of generateRandomData
RegisteredKinds ==
    {"email", "username", "password", "name", "phone", "id", "text"}

\* the text generator (length = 10) => ...: one character picked per
\* position; picks are the characters Math.random selects
TextGenerator(lengthArg, picks) ==
    LET length == OrDefault(lengthArg, Num(DefaultTextLength)).v IN
    [t |-> "chars", v |-> [i \in 1 .. length |-> picks[i]]]

\* generators[type](): the generator is called without an argument
RunGenerator(type, now, random) ==
    CASE type = "email" ->
             Str("test" \o NumberToString(now) \o "@example.com")
      [] type = "username" -> Str("user" \o NumberToString(now))
      [] type = "password" -> Str("pass" \o NumberToString(now))
      [] type = "name" -> Str("Test User " \o NumberToString(now))
      [] type = "phone" ->
             Str("555-" \o NumberToString(random.area) \o "-"
                        \o NumberToString(random.line))
      [] type = "id" -> Str("ID" \o NumberToString(now))
      [] type = "text" -> TextGenerator(Undefined, random.picks)

\* generateRandomData(type, options = {}); now is what Date.now() returns,
\* random what Math.random selects
generateRandomData(type, options, now, random) ==
    IF type \in RegisteredKinds
    THEN RunGenerator(type, now, random)
    ELSE Str("random_" \o type \o "_" \o NumberToString(now))

\* a call of generateRandomData
GenerateRandomData(type, optionsArg, random) ==
    LET options == IF optionsArg = Undefined THEN EmptyObject
                   ELSE optionsArg.v
    IN /\ CalledWith("generateRandomData", "returned", FALSE,
                     [t |-> "generateRandomData", kind |-> type,
                      options |-> options, now |-> clock],
                     generateRandomData(type, options, clock, random))
       /\ UNCHANGED <<ehVars, pmVars, retry, tmo, conc, tdVars, cyVars>>

\* the millisecond clock moves on
ClockAdvances ==
    /\ clock' = clock + 1
    /\ UNCHANGED <<ehVars, pmVars, retry, tmo, conc, call, generated, cyVars>>

-----------------------------------------------------------------------------
(* softAssert (cypress/support/commands.js)                                *)
(*                                                                         *)
(* assertionFn is called inside try.  It returns ("passes"), throws        *)
(* ("throws"), or returns after queueing Cypress commands of which one     *)
(* fails when the queue runs it ("commandFails"): that failure is raised   *)
(* outside the try, ends the test, and the commands queued behind it, the  *)
(* logInfo among them, never run.                                          *)

AssertionBehaviours == {"passes", "throws", "commandFails"}

\* the messages the call logs and whether the enclosing test fails
softAssert(behaviour, message) ==
    CASE behaviour = "passes" ->
             [messages |-> <<"Soft assertion passed: " \o message>>,
              testFailed |-> FALSE]
      [] behaviour = "throws" ->
             [messages |-> <<"Soft assertion failed: " \o message>>,
              testFailed |-> FALSE]
      [] behaviour = "commandFails" ->
             [messages |-> <<>>, testFailed |-> TRUE]

\* softAssert(assertionFn, message = 'Soft assertion')
SoftAssert(behaviour, messageArg) ==
    LET message == OrDefault(messageArg, Str("Soft assertion")).v
        done == softAssert(behaviour, message)
    IN /\ CalledWith("softAssert",
                     IF done.testFailed THEN "failed" ELSE "returned", FALSE,
                     [t |-> "softAssert", behaviour |-> behaviour,
                      message |-> message],
                     [t |-> "softAssert", messages |-> done.messages,
                      testFailed |-> done.testFailed])
       /\ UNCHANGED <<ehVars, pmVars, retry, tmo, conc, tdVars, cyVars>>

-----------------------------------------------------------------------------
(* apiRequest and apiLogin (cypress/support/api-commands.js)               *)
(*                                                                         *)
(* api holds the command: options is the object the caller passed,         *)
(* requestOptions the object built for cy.request, sent the requests       *)
(* issued so far in order, login the state of the apiLogin command and     *)
(* token what it returned.                                                 *)

ApiIdle ==
    [pc |-> "idle", options |-> EmptyObject, requestOptions |-> EmptyObject,
     sent |-> <<>>, login |-> "none", loginStatus |-> 0, token |-> Null,
     status |-> 0]

\* the options cy.request is given: method, url, headers, failOnStatusCode
\* and timeout, and body when it is truthy
RequestOptions(options) ==
    LET method == OrDefault(Get(options, "method"), Str("GET"))
        url == Get(options, "url")
        body == OrDefault(Get(options, "body"), Null)
        headers == OrDefault(Get(options, "headers"), Obj(EmptyObject))
        failOnStatusCode ==
            OrDefault(Get(options, "failOnStatusCode"), Bool(FALSE))
        timeout ==
            OrDefault(Get(options, "timeout"), Num(DefaultRequestTimeout))
        base == [k \in {"method", "url", "headers", "failOnStatusCode",
                        "timeout"} |->
                    CASE k = "method" -> method
                      [] k = "url" -> url
                      [] k = "headers" -> Obj(Spread(ContentTypeJson, headers.v))
                      [] k = "failOnStatusCode" -> failOnStatusCode
                      [] OTHER -> timeout]
    IN  IF Truthy(body) THEN Spread(base, [k \in {"body"} |-> body]) ELSE base

\* the request apiLogin issues
LoginRequest ==
    [k \in {"method", "url", "headers", "body", "failOnStatusCode"} |->
        CASE k = "method" -> Str("POST")
          [] k = "url" -> Str("/auth/login")
          [] k = "headers" -> Obj(ContentTypeJson)
          [] k = "body" -> Obj([u \in {"username", "password"} |->
                                  IF u = "username" THEN Str("Admin")
                                  ELSE Str("admin123")])
          [] OTHER -> Bool(FALSE)]

Issued(kind, options) == [kind |-> kind, options |-> options]

\* what apiLogin yields as token for a response
LoginToken(status, bodyToken, headerToken) ==
    IF status = 200 \/ status = 201
    THEN IF Truthy(bodyToken) THEN bodyToken ELSE headerToken
    ELSE Null

WithAuthorization_Always(requestOptions, token) ==
    [requestOptions EXCEPT !["headers"] =
        Obj(Spread(@.v, [h \in {"Authorization"} |->
                            Str("Bearer " \o (IF token.t = "string"
                                              THEN token.v ELSE "null"))]))]

\* if (token) requestOptions.headers['Authorization'] = `Bearer ${token}`
WithAuthorization(requestOptions, token) ==
    IF Truthy(token)
    THEN [requestOptions EXCEPT !["headers"] =
              Obj(Spread(@.v, [h \in {"Authorization"} |->
                                  Str("Bearer " \o token.v)]))]
    ELSE requestOptions

\* cy.apiRequest(options), up to the first request it issues: the login
\* request when auth is truthy, the target request otherwise
ApiRequest(options) ==
    /\ api.pc \in {"idle", "done"}
    /\ LET requestOptions == RequestOptions(options)
           auth == OrDefault(Get(options, "auth"), Bool(TRUE))
       IN  api' = [ApiIdle EXCEPT
                      !.options = options,
                      !.requestOptions = requestOptions,
                      !.pc = IF Truthy(auth) THEN "login" ELSE "request",
                      !.login = IF Truthy(auth) THEN "requested" ELSE "none",
                      !.sent = IF Truthy(auth)
                               THEN <<Issued("login", LoginRequest)>>
                               ELSE <<Issued("target", requestOptions)>>]
    /\ Called("apiRequest", "enqueued", 0, {})
    /\ UNCHANGED <<ehVars, pmVars, retry, tmo, conc, tdVars, rwl, win>>

\* the login responds: apiLogin's .then yields {token}, and apiRequest's
\* .then issues the target request
LoginResponds(status, bodyToken, headerToken) ==
    /\ api.pc = "login"
    /\ LET token == LoginToken(status, bodyToken, headerToken)
           requestOptions == WithAuthorization(api.requestOptions, token)
       IN  api' = [api EXCEPT
                      !.pc = "request",
                      !.login = "responded",
                      !.loginStatus = status,
                      !.token = token,
                      !.requestOptions = requestOptions,
                      !.sent = Append(@, Issued("target", requestOptions))]
    /\ Called("apiLogin.then", "yielded", 0, {})
    /\ UNCHANGED <<ehVars, pmVars, retry, tmo, conc, tdVars, rwl, win>>

\* the target request responds
RequestResponds(status) ==
    /\ api.pc = "request"
    /\ api' = [api EXCEPT !.pc = "done", !.status = status]
    /\ Called("apiRequest.then", "yielded", 0, {})
    /\ UNCHANGED <<ehVars, pmVars, retry, tmo, conc, tdVars, rwl, win>>

-----------------------------------------------------------------------------
(* retryWithLog (cypress/support/e2e.js) and assertWithRetry               *)
(* (cypress/support/commands.js)                                           *)

(*                                                                         *)
(* rwl holds the closure of the command: attempts is the code's counter,   *)
(* invoked counts the calls of fn(), pending is the set of attempts whose  *)
(* promise has not settled, queue the Cypress commands the callbacks have  *)
(* enqueued and not yet run, now the time the queue has spent in cy.wait,  *)
(* outcome, value and error the state of the promise the command returns,  *)
(* trace what the command did, in order, each with the time it happened.   *)

RetryWithLogIdle ==
    [pc |-> "idle", command |-> "", maxAttempts |-> 0, delay |-> 0,
     attempts |-> 0, invoked |-> 0, pending |-> {}, queue |-> <<>>,
     now |-> 0, outcome |-> "pending", value |-> "", error |-> "",
     lastError |-> "", trace |-> <<>>]

LogCommand == [cmd |-> "log", ms |-> 0]
WaitCommand(ms) == [cmd |-> "wait", ms |-> ms]

\* the inner function attempt(): count, queue the log, invoke fn()
AttemptWithLog(r) ==
    [r EXCEPT !.attempts = @ + 1,
              !.invoked = @ + 1,
              !.pending = @ \cup {r.attempts + 1},
              !.queue = Append(@, LogCommand),
              !.pc = "inflight",
              !.trace = Append(@, Event("start", r.attempts + 1, r.now))]

\* cy.retryWithLog(fn, maxAttempts = 3, delay = 1000) and
\* cy.assertWithRetry(assertionFn, maxAttempts = 3, delay = 1000)
RetryWithLog(command, maxAttemptsArg, delayArg) ==
    /\ rwl.pending = {}
    /\ rwl' = AttemptWithLog(
                  [RetryWithLogIdle EXCEPT
                      !.command = command,
                      !.maxAttempts =
                          OrDefault(maxAttemptsArg, Num(DefaultMaxAttempts)).v,
                      !.delay = OrDefault(delayArg, Num(DefaultWaitDelay)).v])
    /\ Called(command, "returned", FALSE, {})
    /\ UNCHANGED <<ehVars, pmVars, retry, tmo, conc, tdVars, api, win>>

\* the promise of attempt k fulfils: nothing is chained on success, so the
\* promise the command returned fulfils with the same value
FnFulfils(k, result) ==
    /\ k \in rwl.pending
    /\ rwl' = [rwl EXCEPT !.pending = @ \ {k},
                          !.pc = "settled",
                          !.outcome = "resolved",
                          !.value = result,
                          !.trace = Append(@, Event("fulfilled", k, rwl.now))]
    /\ CalledWith(rwl.command \o ".then", "returned", FALSE,
                  [t |-> "result", v |-> result], NoValue)
    /\ UNCHANGED <<ehVars, pmVars, retry, tmo, conc, tdVars, api, win>>

\* the .catch callback of attempt k: below maxAttempts it queues a log and
\* a wait and calls attempt() at once; otherwise it queues a log and
\* rethrows the error it was given
FnRejects(k, error) ==
    /\ k \in rwl.pending
    /\ LET rejected ==
               [rwl EXCEPT !.pending = @ \ {k},
                           !.lastError = error,
                           !.trace = Append(@, Event("rejected", k, rwl.now))]
       IN  IF rwl.attempts < rwl.maxAttempts
           THEN rwl' = AttemptWithLog(
                           [rejected EXCEPT
                               !.queue = @ \o <<LogCommand,
                                                WaitCommand(rwl.delay)>>])
           ELSE rwl' = [rejected EXCEPT
                           !.queue = Append(@, LogCommand),
                           !.pc = "settled",
                           !.outcome = "rejected",
                           !.error = error]
    /\ CalledWith(rwl.command \o ".catch", "returned", FALSE,
                  [t |-> "error", v |-> error], NoValue)
    /\ UNCHANGED <<ehVars, pmVars, retry, tmo, conc, tdVars, api, win>>

\* the command has ended: Cypress runs the next command the callbacks
\* queued; a wait takes its time
QueueRuns ==
    /\ rwl.pc = "settled"
    /\ rwl.queue # <<>>
    /\ rwl' = [rwl EXCEPT !.queue = Tail(@),
                          !.now = @ + Head(rwl.queue).ms]
    /\ Called("cy." \o Head(rwl.queue).cmd, "returned", FALSE, {})
    /\ UNCHANGED <<ehVars, pmVars, retry, tmo, conc, tdVars, api, win>>

-----------------------------------------------------------------------------
(* ErrorHandler.handleConsoleError                                         *)
(*                                                                         *)
(* win.consoleError is the chain of wrappers installed on                  *)
(* win.console.error, the oldest first, each by the context it was         *)
(* installed with; the empty chain is the original console.error.          *)
(* win.installed counts the handleConsoleError calls on the window.        *)

WindowInit == [consoleError |-> <<>>, installed |-> 0]

InstallWrapper_Replace(chain, context) == <<context>>

\* win.console.error = (...args) => {...}: the new wrapper keeps the function
\* it replaces as originalConsoleError
InstallWrapper(chain, context) == Append(chain, context)

\* handleConsoleError(context = ''), with the cy.window().then callback
HandleConsoleError(contextArg) ==
    /\ win' = [win EXCEPT
                  !.consoleError =
                      InstallWrapper(@, OrDefault(contextArg, Str(""))),
                  !.installed = @ + 1]
    /\ Called("handleConsoleError", "returned", FALSE, {})
    /\ UNCHANGED <<ehVars, pmVars, retry, tmo, conc, tdVars, api, rwl>>

\* a call of the function at the end of the chain: the wrapper logs a
\* ConsoleError record and calls the function it replaced; the original
\* console.error receives the arguments
RECURSIVE ConsoleErrorCall(_, _, _)
ConsoleErrorCall(chain, log, args) ==
    IF chain = <<>>
    THEN [log |-> log, original |-> <<args>>]
    ELSE ConsoleErrorCall(
             SubSeq(chain, 1, Len(chain) - 1),
             logError(log, [type |-> "ConsoleError",
                            context |-> chain[Len(chain)],
                            message |-> args]),
             args)

\* the page calls win.console.error(args)
ConsoleError(args) ==
    /\ LET done == ConsoleErrorCall(win.consoleError, errorLog, args)
       IN  /\ errorLog' = done.log
           /\ alert' = IF win.consoleError = <<>> THEN alert
                       ELSE ThresholdMessage(Len(done.log), errorThresholds)
           /\ CalledWith("console.error", "returned",
                         win.consoleError # <<>>,
                         [t |-> "args", v |-> args],
                         [t |-> "console", original |-> done.original])
    /\ UNCHANGED <<retryAttempts, retryDelay, errorThresholds, pmVars,
                   retry, tmo, conc, tdVars, cyVars>>

-----------------------------------------------------------------------------
(* The program *)

Init ==
    /\ ErrorHandlerInit
    /\ PerformanceMonitorInit
    /\ retry = RetryIdle
    /\ tmo = TimeoutIdle
    /\ conc = ConcIdle
    /\ call = [op |-> "constructor", outcome |-> "returned", logged |-> FALSE,
               supplied |-> {}, warned |-> FALSE,
               arg |-> NoValue, result |-> NoValue]
    /\ clock = 0
    /\ generated = <<>>
    /\ api = ApiIdle
    /\ rwl = RetryWithLogIdle
    /\ win = WindowInit

ContextArgs == {NoString} \cup {Str(c) : c \in Contexts}
RetryArgs == {Undefined} \cup {Num(n) : n \in 0 .. MaxRetries}
DelayArgs == {Undefined} \cup {Num(n) : n \in 0 .. MaxDelay}
ConcurrentArgs == {Undefined} \cup {Num(n) : n \in 1 .. MaxConcurrent}

\* retryOperation calls and their callbacks
NextRetry ==
    \/ /\ Len(errorLog) < MaxLog
       /\ \E m \in RetryArgs, d \in DelayArgs : RetryOperation(m, d)
    \/ \E k \in retry.pending, r \in Results : OperationFulfils(k, r)
    \/ \E k \in retry.pending, e \in ErrorMessages : OperationRejects(k, e)
    \/ RetryTimerFires
    \/ Tick

SpecRetry == Init /\ [][NextRetry]_vars

\* handleTimeoutError calls and their callbacks
NextTimeout ==
    \/ /\ Len(errorLog) < MaxLog
       /\ \E t \in DelayArgs, c \in ContextArgs : HandleTimeoutError(t, c)
    \/ TimeoutFires
    \/ \E r \in Results : ActionFulfils(r)
    \/ \E e \in ErrorMessages : ActionRejects(e)
    \/ Tick

SpecTimeout == Init /\ [][NextTimeout]_vars

\* monitorConcurrentRequests calls and their callbacks
NextConcurrent ==
    \/ \E n \in 0 .. MaxRequests, m \in ConcurrentArgs :
           MonitorConcurrentRequests(n, m)
    \/ ConcLoopStep
    \/ ConcLoopExit
    \/ \E j \in 1 .. conc.n, ok \in BOOLEAN : RequestSettles(j, ok)
    \/ ConcBatchDone
    \/ ConcBatchFails
    \/ ConcFinish

SpecConcurrent == Init /\ [][NextConcurrent]_vars

\* the for loop is synchronous code: once entered it runs to its end
SpecConcurrentLive ==
    /\ Init
    /\ [][NextConcurrent]_vars
    /\ WF_vars(ConcLoopStep \/ ConcLoopExit)

\* the handlers and monitors that write the logs, and the calls that
\* empty them
NextLogs ==
    \/ /\ Len(errorLog) < MaxLogged
       /\ \/ \E n \in {0, 1} : HandleElementNotFound("#login", n, NoString)
          \/ \E c \in ContextArgs : HandleAssertionError(c)
          \/ \E st \in {399, 400} : HandleApiError(st, NoString)
          \/ \E r \in BOOLEAN : HandleNetworkError(r, 500, NoString)
          \/ \E r \in BOOLEAN : HandlePageLoadError(r, NoString)
    \/ ClearErrorLog
    \/ /\ Len(metrics.pageLoadTimes) < MaxSamples
       /\ MonitorPageLoad(6000)
    \/ /\ Len(metrics.apiCallTimes) < MaxSamples
       /\ \E ok \in BOOLEAN : MonitorApiCall(ok, "/employees", 1000, 200)
    \/ /\ Len(metrics.responseTimes) < MaxSamples
       /\ \/ MonitorUserInteraction("click", 1000)
          \/ MonitorLoginPerformance(1000)
    \/ /\ Len(metrics.memoryUsage) < MaxSamples
       /\ \E a \in BOOLEAN : MonitorMemoryUsage(a, 1000)
    \/ ResetMetrics

SpecLogs == Init /\ [][NextLogs]_vars

ErrorThresholdOverrides ==
    {EmptyObject,
     [k \in {"critical"} |-> Num(2)],
     [k \in {"warning", "info"} |-> Num(IF k = "warning" THEN 1 ELSE 30)],
     [k \in {"critical"} |-> Undefined]}

ThresholdOverrides ==
    {EmptyObject,
     [k \in {"pageLoadTime"} |-> Num(500)],
     [k \in {"apiResponseTime", "loginTime"} |-> Num(2000)],
     [k \in {"memoryUsage"} |-> Undefined]}

\* the configuration setters, beside calls that fill the logs
NextConfig ==
    \/ \E o \in ErrorThresholdOverrides : SetErrorThresholds(o)
    \/ \E a \in RetryArgs, d \in DelayArgs : SetRetryConfiguration(a, d)
    \/ \E o \in ThresholdOverrides : SetThresholds(o)
    \/ /\ Len(errorLog) < MaxLog
       /\ HandleApiError(500, NoString)
    \/ /\ Len(metrics.pageLoadTimes) < MaxSamples
       /\ MonitorPageLoad(1000)

SpecConfig == Init /\ [][NextConfig]_vars

\* the recording monitors with a time below and a time above each default
\* threshold, the report and the reset
NextReport ==
    \/ /\ Len(metrics.pageLoadTimes) < MaxSamples
       /\ \E d \in {1000, 6000} : MonitorPageLoad(d)
    \/ /\ Len(metrics.apiCallTimes) < MaxSamples
       /\ \E ok \in BOOLEAN, d \in {1000, 4000} :
              MonitorApiCall(ok, "/employees", d, IF ok THEN 200 ELSE 500)
    \/ /\ Len(metrics.responseTimes) < MaxSamples
       /\ \/ MonitorUserInteraction("click", 1000)
          \/ \E d \in {1000, 11000} : MonitorLoginPerformance(d)
    \/ /\ Len(metrics.memoryUsage) < MaxSamples
       /\ \E u \in {1000, DefaultMemoryUsage + 1} : MonitorMemoryUsage(TRUE, u)
    \/ SetThresholds([k \in {"pageLoadTime"} |-> Num(500)])
    \/ GeneratePerformanceReport
    \/ ResetMetrics

SpecReport == Init /\ [][NextReport]_vars

KeyNames == <<"name", "age", "email">>
Keys == {KeyNames[i] : i \in 1 .. MaxKeys}
DataValues == {Str("x"), Str("X"), Str(""), Num(0)}
Rules ==
    [required : BOOLEAN,
     type : {NoString, Str("string"), Str("number")},
     pattern : {NoString, Str("^[a-z]+$")}]

\* the keys of S in the order they were written
KeySeq(S) == SelectSeq(KeyNames, LAMBDA k : k \in S)

\* the objects handed to validateTestData
DataObjects == UNION {[S -> DataValues] : S \in SUBSET Keys}
Schemas ==
    UNION {{[i \in 1 .. Len(KeySeq(S)) |->
                [key |-> KeySeq(S)[i],
                 required |-> f[KeySeq(S)[i]].required,
                 type |-> f[KeySeq(S)[i]].type,
                 pattern |-> f[KeySeq(S)[i]].pattern]] : f \in [S -> Rules]}
           : S \in SUBSET Keys}

\* validateTestData keeps no state: one call on every data and schema
NextValidate ==
    /\ call.op = "constructor"
    /\ \E d \in DataObjects, sc \in Schemas : ValidateTestData(d, sc)

SpecValidate == Init /\ [][NextValidate]_vars

Kinds == RegisteredKinds \cup {"uuid", "colour"}
TextChars == {"A", "9"}
OptionArgs ==
    {Undefined} \cup {[t |-> "object", v |-> [length |-> n]] :
                         n \in 1 .. MaxTextLength}

\* what Math.random selects in one call: the two parts of a phone number
\* and the character of each position of a text
Randoms ==
    [area : {100, 999}, line : {1000, 9999},
     picks : [1 .. DefaultTextLength -> {"A"}]]
        \cup [area : {100}, line : {1000},
              picks : [1 .. DefaultTextLength -> TextChars]]

\* generateRandomData keeps no state: one call at each time of the clock
NextRandom ==
    \/ /\ call.op = "constructor"
       /\ \E k \in Kinds, o \in OptionArgs, r \in Randoms :
              GenerateRandomData(k, o, r)
    \/ /\ clock < MaxClock
       /\ ClockAdvances

SpecRandom == Init /\ [][NextRandom]_vars

\* generateEmployeeData against the clock, and softAssert
NextSupport ==
    \/ /\ Len(generated) < MaxGenerated
       /\ GenerateEmployeeData
    \/ /\ clock < MaxClock
       /\ ClockAdvances
    \/ \E b \in AssertionBehaviours, m \in {NoString, Str("title shown")} :
           SoftAssert(b, m)

SpecSupport == Init /\ [][NextSupport]_vars

\* the status codes of the responses and errors handed to the handlers
StatusCodes == {200, 399, 400, 500}

\* the handlers that are given a response or a failed request
NextResponses ==
    \/ /\ Len(errorLog) < MaxLog
       /\ \/ \E st \in StatusCodes, c \in ContextArgs : HandleApiError(st, c)
          \/ \E r \in BOOLEAN, st \in StatusCodes, c \in ContextArgs :
                 HandleNetworkError(r, st, c)
    \/ ClearErrorLog

SpecResponses == Init /\ [][NextResponses]_vars

Selectors == {"#login", ".oxd-button"}

\* handleElementNotFound on selectors that match no, one or more elements,
\* beside another handler that writes the error log
NextElements ==
    \/ /\ Len(errorLog) < MaxLog
       /\ \/ \E sel \in Selectors, n \in 0 .. MaxMatches, c \in ContextArgs :
                 HandleElementNotFound(sel, n, c)
          \/ \E c \in ContextArgs : HandleAssertionError(c)
    \/ ClearErrorLog

SpecElements == Init /\ [][NextElements]_vars

\* the options objects the specs pass to apiRequest
ApiOptions ==
    LET url == [k \in {"url"} |-> Str("/pim/employees")]
        qs == [k \in {"qs"} |->
                  Obj([q \in {"limit"} |-> Num(10)])]
        body == [k \in {"method", "body"} |->
                    IF k = "method" THEN Str("POST")
                    ELSE Obj([f \in {"firstName"} |-> Str("John")])]
        noAuth == [k \in {"auth"} |-> Bool(FALSE)]
        tuned == [k \in {"headers", "timeout", "failOnStatusCode"} |->
                     CASE k = "headers" ->
                              Obj([h \in {"X-Trace"} |-> Str("1")])
                       [] k = "timeout" -> Num(5000)
                       [] OTHER -> Bool(TRUE)]
    IN  {url, Spread(url, qs), Spread(url, body), Spread(url, noAuth),
         Spread(url, tuned), Spread(Spread(url, qs), noAuth)}

LoginStatuses == {200, 201, 401}
BodyTokens == {Undefined, Str(""), Str("abc")}
HeaderTokens == {Undefined, Str("hdr")}

NextApi ==
    \/ \E o \in ApiOptions : ApiRequest(o)
    \/ \E s \in LoginStatuses, b \in BodyTokens, h \in HeaderTokens :
           LoginResponds(s, b, h)
    \/ \E s \in StatusCodes : RequestResponds(s)

SpecApi == Init /\ [][NextApi]_vars

\* numeric thresholds, below and above the defaults
NumericThresholdOverrides ==
    {[k \in {"critical"} |-> Num(2)],
     [k \in {"critical"} |-> Num(DefaultWarning + 1)],
     [k \in {"warning"} |-> Num(1)],
     [k \in {"warning", "critical"} |->
         Num(IF k = "warning" THEN DefaultWarning ELSE DefaultCritical)]}

\* logError against thresholds that are numbers
NextThresholds ==
    \/ \E o \in NumericThresholdOverrides : SetErrorThresholds(o)
    \/ /\ Len(errorLog) < MaxStatLog
       /\ HandleAssertionError(NoString)
    \/ ClearErrorLog

SpecThresholds == Init /\ [][NextThresholds]_vars

RetryCommands == {"retryWithLog", "assertWithRetry"}
MaxAttemptsArgs == {Undefined} \cup {Num(n) : n \in 1 .. MaxRetries}

\* retryWithLog and assertWithRetry, beside a handler that fills the log
NextRetryWithLog ==
    \/ \E c \in RetryCommands, m \in MaxAttemptsArgs, d \in DelayArgs :
           RetryWithLog(c, m, d)
    \/ \E k \in rwl.pending, r \in Results : FnFulfils(k, r)
    \/ \E k \in rwl.pending, e \in ErrorMessages : FnRejects(k, e)
    \/ QueueRuns
    \/ /\ Len(errorLog) < MaxLabelled
       /\ HandleAssertionError(NoString)

SpecRetryWithLog == Init /\ [][NextRetryWithLog]_vars

\* what the page writes to console.error
ConsoleArgs == {"boom", "failed to load"}

\* handleConsoleError installed up to MaxWrappers times on one window, and
\* the page's console.error calls
NextConsole ==
    \/ /\ win.installed < MaxWrappers
       /\ \E c \in ContextArgs : HandleConsoleError(c)
    \/ /\ Len(errorLog) < MaxLog
       /\ \E a \in ConsoleArgs : ConsoleError(a)
    \/ ClearErrorLog

SpecConsole == Init /\ [][NextConsole]_vars

\* calls that fill the error log, for the statistics
Labelled == {i \in 1 .. Len(errorLog) : errorLog[i].context # Str("")}

NextStats ==
    \/ /\ Len(errorLog) < MaxStatLog
       /\ \/ HandleElementNotFound("#login", 0, NoString)
          \/ /\ Cardinality(Labelled) < MaxLabelled
             /\ HandleElementNotFound("#login", 0, Str("login"))
          \/ HandleAssertionError(NoString)
    \/ ClearErrorLog

SpecStats == Init /\ [][NextStats]_vars

\* every operation of the two classes
Next ==
    \/ NextRetry
    \/ NextTimeout
    \/ NextConcurrent
    \/ NextLogs
    \/ NextConfig
    \/ NextResponses
    \/ NextReport
    \/ NextValidate
    \/ NextSupport
    \/ NextElements
    \/ NextRandom
    \/ NextApi
    \/ NextThresholds
    \/ NextRetryWithLog
    \/ NextConsole

Spec == Init /\ [][Next]_vars

-----------------------------------------------------------------------------
(* Properties *)

\* C1: retryOperation(operation, N, delay) invokes the operation at most N
\* times, and exactly N times when every attempt fails (the call is then
\* rejected), for every integer N >= 0.
C1_AtMostMaxAttempts ==
    IsNumber(retry.maxRetries) =>
        /\ retry.invoked <= retry.maxRetries.v
        /\ retry.outcome = "rejected" => retry.invoked = retry.maxRetries.v

\* the requests that have been started and have not settled
Unsettled == {j \in 1 .. conc.n : conc.ops[j] = "pending"}

\* the batch of request j, counted from 0
BatchOf(j) == (j - 1) \div conc.maxConcurrent

\* C2: monitorConcurrentRequests starts no request of a batch before every
\* request of the batches before it has settled; at every moment at most
\* maxConcurrent started requests are unsettled.
C2_BatchesSequential ==
    /\ Cardinality(Unsettled) <= conc.maxConcurrent
    /\ \A j, k \in 1 .. conc.n :
           (BatchOf(j) < BatchOf(k) /\ conc.ops[k] # "notstarted")
               => conc.ops[j] \in {"fulfilled", "rejected"}

\* C3: the attempts of one retryOperation call are strictly sequential: at
\* most one attempt is in flight, none while the retry timer runs, and
\* attempt k+1 starts only after attempt k was rejected, the retry message
\* for attempt k was logged, and the delay has passed since.
C3_Sequential ==
    /\ Cardinality(retry.pending) <= 1
    /\ retry.timer # NoTimer => retry.pending = {}
    /\ \A i \in 1 .. Len(retry.trace) :
           (retry.trace[i].ev = "start" /\ retry.trace[i].k > 1) =>
               /\ i > 2
               /\ retry.trace[i - 2] = Event("rejected", retry.trace[i].k - 1, 0)
               /\ retry.trace[i - 1] = Event("retryInfo", retry.trace[i].k - 1, 0)
               /\ retry.trace[i].waited >= TimerMs(retry.delay)

\* a second attempt is in flight after a delay that is not zero
C3_Witness ==
    /\ retry.attempts >= 2
    /\ retry.pending # {}
    /\ TimerMs(retry.delay) >= 1

\* C4: when the attempts are exhausted, exactly one RetryExhausted record is
\* appended to the error log, and the call is rejected with a message that
\* holds the number of attempts made and the message of the last failure.
C4_Exhausted ==
    retry.outcome = "rejected" =>
        /\ retry.logged = 1
        /\ errorLog # <<>>
        /\ errorLog[Len(errorLog)].type = "RetryExhausted"
        /\ retry.message.count = Num(retry.invoked)
        /\ retry.message.error = retry.lastError

\* the TimeoutError records the current handleTimeoutError call appended
TimeoutRecords ==
    {i \in tmo.base + 1 .. Len(errorLog) : errorLog[i].type = "TimeoutError"}

\* C5: the outcome of handleTimeoutError is that of the first of the three
\* events (the action fulfils, the action rejects, the timer fires); a later
\* event does not change it; a TimeoutError record is appended if and only
\* if the timer fired first.
C5_FirstWins ==
    /\ tmo.first = "none" => tmo.outcome = "pending"
    /\ tmo.first = "fulfilled" =>
           tmo.outcome = "resolved" /\ tmo.value = tmo.settled
    /\ tmo.first = "rejected" =>
           tmo.outcome = "rejected" /\ tmo.reason = tmo.settled
    /\ tmo.first = "timer" =>
           tmo.outcome = "rejected" /\ tmo.reason = "timeout"
    /\ Cardinality(TimeoutRecords) = IF tmo.first = "timer" THEN 1 ELSE 0

\* the timer fired first and the action fulfilled afterwards
C5_Witness ==
    /\ tmo.first = "timer"
    /\ tmo.action = "fulfilled"
    /\ tmo.outcome = "rejected"
    /\ Cardinality(TimeoutRecords) = 1

FailingHandlers ==
    {"handleElementNotFound", "handleAssertionError", "handleApiError",
     "handleNetworkError", "handlePageLoadError"}

\* C6: a handler that propagates a failure to its caller has appended an
\* error record for it to the error log before.
C6_FailLoud ==
    /\ (call.op \in FailingHandlers /\ call.outcome = "failed") => call.logged
    /\ retry.outcome = "rejected" => retry.logged >= 1
    /\ tmo.outcome = "rejected" => tmo.logged >= 1

C8_ThresholdsDefined ==
    /\ \A k \in ThresholdKeys : k \in DOMAIN thresholds /\ IsNumber(thresholds[k])
    /\ \A k \in ErrorThresholdKeys :
           k \in DOMAIN errorThresholds /\ IsNumber(errorThresholds[k])

\* the settings of both classes, by name
Settings ==
    [retryAttempts |-> retryAttempts, retryDelay |-> retryDelay,
     errorThresholds |-> errorThresholds, thresholds |-> thresholds]

\* the named setting after the step
SettingsAfter ==
    [retryAttempts |-> retryAttempts', retryDelay |-> retryDelay',
     errorThresholds |-> errorThresholds', thresholds |-> thresholds']

Setters == {"setErrorThresholds", "setRetryConfiguration", "setThresholds"}

\* C9: a configuration setter changes only the settings its call supplies:
\* the retry settings and threshold keys that are not supplied keep their
\* values, and the error log and the samples are unchanged.
C9_MergeSemantics ==
    [][call'.op \in Setters =>
           /\ errorLog' = errorLog
           /\ metrics' = metrics
           /\ \A k \in {"retryAttempts", "retryDelay"} \ call'.supplied :
                  SettingsAfter[k] = Settings[k]
           /\ \A o \in {"errorThresholds", "thresholds"} :
                  \A k \in (DOMAIN Settings[o]) \ call'.supplied :
                      SettingsAfter[o][k] = Settings[o][k]]_vars

RECURSIVE SumCounts(_, _)
SumCounts(counts, keys) ==
    IF keys = {} THEN 0
    ELSE LET k == CHOOSE x \in keys : TRUE
         IN counts[k] + SumCounts(counts, keys \ {k})

ConsecutiveBatches(n, m) ==
    [b \in 1 .. ((n + m - 1) \div m) |-> <<(b - 1) * m + 1, Min(b * m, n)>>]

C12_NetworkError ==
    [][call'.op = "handleNetworkError" =>
           IF call'.arg.status >= 400 \/ call'.arg.t = "error"
           THEN /\ Len(errorLog') = Len(errorLog) + 1
                /\ IsPrefix(errorLog, errorLog')
                /\ errorLog'[Len(errorLog')].type = "NetworkError"
                /\ call'.outcome = "failed"
           ELSE /\ errorLog' = errorLog
                /\ call'.outcome = "returned"
                /\ call'.result = call'.arg]_vars

\* C13: handleApiError, for every status code s: when s >= 400 exactly one
\* ApiError record is appended to the error log and the call fails; when
\* s < 400 the response given is returned and the error log is unchanged.
C13_ApiError ==
    [][call'.op = "handleApiError" =>
           IF call'.arg.status >= 400
           THEN /\ Len(errorLog') = Len(errorLog) + 1
                /\ IsPrefix(errorLog, errorLog')
                /\ errorLog'[Len(errorLog')].type = "ApiError"
                /\ call'.outcome = "failed"
                /\ call'.logged
           ELSE /\ errorLog' = errorLog
                /\ call'.outcome = "returned"
                /\ call'.result = call'.arg]_vars

\* a response with status 399 was returned after one with status 400 was
\* logged as an ApiError
C13_Witness ==
    /\ call.op = "handleApiError"
    /\ call.arg = Response(399)
    /\ call.result = Response(399)
    /\ Len(errorLog) = 1
    /\ errorLog[1].type = "ApiError"

\* the positions of the samples that exceed their category's limit
PageLoadsOver ==
    {i \in 1 .. Len(metrics.pageLoadTimes) :
        JsGt(metrics.pageLoadTimes[i], thresholds["pageLoadTime"])}
ApiCallsOver ==
    {i \in 1 .. Len(metrics.apiCallTimes) :
        JsGt(metrics.apiCallTimes[i].responseTime, thresholds["apiResponseTime"])}
LoginsOver ==
    {i \in 1 .. Len(metrics.responseTimes) :
        /\ metrics.responseTimes[i].action = "login"
        /\ JsGt(metrics.responseTimes[i].duration, thresholds["loginTime"])}
MemoryChecksOver ==
    {i \in 1 .. Len(metrics.memoryUsage) :
        JsGt(metrics.memoryUsage[i].used, thresholds["memoryUsage"])}

\* the report has an entry for the sample at position i with this value and
\* this limit
HasViolation(report, i, value, limit) ==
    \E k \in 1 .. Len(report.violations) :
        /\ report.violations[k].index = i - 1
        /\ report.violations[k].actual = value
        /\ report.violations[k].threshold = limit

\* C14: the violations of generatePerformanceReport hold an entry for every
\* recorded sample of every category with a limit (page load, API call,
\* login time, memory usage) that exceeds the limit, and no entry for a
\* sample that does not exceed its limit.
C14_Violations ==
    LET report == generatePerformanceReport(metrics, thresholds) IN
    /\ \A i \in PageLoadsOver :
           HasViolation(report, i, metrics.pageLoadTimes[i],
                        thresholds["pageLoadTime"])
    /\ \A i \in ApiCallsOver :
           HasViolation(report, i, metrics.apiCallTimes[i].responseTime,
                        thresholds["apiResponseTime"])
    /\ \A i \in LoginsOver :
           HasViolation(report, i, metrics.responseTimes[i].duration,
                        thresholds["loginTime"])
    /\ \A i \in MemoryChecksOver :
           HasViolation(report, i, metrics.memoryUsage[i].used,
                        thresholds["memoryUsage"])
    /\ Len(report.violations) =
           Cardinality(PageLoadsOver) + Cardinality(ApiCallsOver)
               + Cardinality(LoginsOver) + Cardinality(MemoryChecksOver)

\* an average that is the number 0
IsZero(avg) == avg.num = 0 /\ avg.den # 0

\* C19: after resetMetrics(), whatever was recorded before, the report's
\* summary counts are all 0, its averages are all 0 and its violations are
\* empty, and the thresholds are those from before the call.
C19_ResetMetrics ==
    [][call'.op = "resetMetrics" =>
           LET report == generatePerformanceReport(metrics', thresholds') IN
           /\ \A f \in DOMAIN metrics' : metrics'[f] = <<>>
           /\ \A c \in DOMAIN report.summary : report.summary[c] = 0
           /\ \A a \in DOMAIN report.averages : IsZero(report.averages[a])
           /\ report.violations = <<>>
           /\ thresholds' = thresholds
           /\ report.thresholds = thresholds]_vars

\* resetMetrics() dropped samples of three sequences, under thresholds that
\* are not the defaults
C19_Witness ==
    /\ call.op = "resetMetrics"
    /\ call.arg.samples >= 3
    /\ thresholds["pageLoadTime"] = Num(500)
    /\ SampleCount(metrics) = 0

\* what a schema asks of a data object, read off the object itself: a
\* required key that is absent, a present value of another type than the
\* rule's, a present value the rule's pattern does not match
ExpectedViolations(data, schema) ==
    {<<"Missing required field", schema[i].key>> :
        i \in {j \in 1 .. Len(schema) :
                  schema[j].required /\ schema[j].key \notin DOMAIN data}}
    \cup {<<"Invalid type", schema[i].key>> :
        i \in {j \in 1 .. Len(schema) :
                  /\ schema[j].key \in DOMAIN data
                  /\ schema[j].type # NoString
                  /\ TypeOf(data[schema[j].key]) # schema[j].type.v}}
    \cup {<<"Invalid format", schema[i].key>> :
        i \in {j \in 1 .. Len(schema) :
                  /\ schema[j].key \in DOMAIN data
                  /\ schema[j].pattern # NoString
                  /\ StringOf(data[schema[j].key]) \notin LowercaseWords}}

\* the violations the message of a failed validateTestData call lists
ListedViolations ==
    {<<call.result.errors[i].kind, call.result.errors[i].key>> :
        i \in 1 .. Len(call.result.errors)}

\* C15: validateTestData collects every violation of every schema key
\* (missing required field, type mismatch, pattern mismatch) and, when there
\* is at least one, raises one failure whose message lists them all.
C15_AllViolationsListed ==
    call.op = "validateTestData" =>
        LET expected == ExpectedViolations(call.arg.data, call.arg.schema) IN
        expected # {} =>
            /\ call.outcome = "failed"
            /\ expected \subseteq ListedViolations

\* C16: when data satisfies the schema, validateTestData succeeds and
\* returns the data object it was given, unchanged.
C16_ReturnsInput ==
    (/\ call.op = "validateTestData"
     /\ ExpectedViolations(call.arg.data, call.arg.schema) = {}) =>
        /\ call.outcome = "returned"
        /\ call.result.t = "object"
        /\ call.result.v = call.arg.data

\* C17: the employeeId values of the records generateEmployeeData has
\* generated are pairwise distinct, also when the clock did not move on
\* between two calls.
C17_DistinctIds ==
    \A i, j \in 1 .. Len(generated) :
        i # j => generated[i].employeeId # generated[j].employeeId

\* C18: when the call given to monitorApiCall completes, exactly one sample
\* {endpoint, responseTime, status} is appended to the API-call samples and
\* the caller receives the response with the responseTime of the sample; a
\* responseTime above the apiResponseTime threshold is reported as a warning
\* and the call still returns.
C18_ApiCallRecorded ==
    [][(call'.op = "monitorApiCall" /\ call'.arg.t = "response") =>
           /\ Len(metrics'.apiCallTimes) = Len(metrics.apiCallTimes) + 1
           /\ IsPrefix(metrics.apiCallTimes, metrics'.apiCallTimes)
           /\ LET sample == metrics'.apiCallTimes[Len(metrics'.apiCallTimes)]
              IN /\ sample.status = call'.arg.status
                 /\ call'.result.response = call'.arg
                 /\ call'.result.responseTime = sample.responseTime
                 /\ call'.warned =
                        JsGt(sample.responseTime, thresholds["apiResponseTime"])
           /\ call'.outcome = "returned"
           /\ \A f \in (DOMAIN metrics) \ {"apiCallTimes"} :
                  metrics'[f] = metrics[f]]_vars

\* a call that took longer than the threshold was recorded, warned about and
\* returned to the caller
C18_Witness ==
    /\ call.op = "monitorApiCall"
    /\ call.warned
    /\ call.outcome = "returned"
    /\ call.result.responseTime = 4000
    /\ Len(metrics.apiCallTimes) = 1

\* C20: a failure raised by the assertion function given to softAssert is
\* logged as a soft-assertion failure and does not fail the enclosing test;
\* each call logs exactly one of the messages 'Soft assertion passed' and
\* 'Soft assertion failed'.
C20_SoftAssert ==
    call.op = "softAssert" =>
        /\ ~call.result.testFailed
        /\ call.outcome = "returned"
        /\ Len(call.result.messages) = 1
        /\ call.result.messages[1] =
               (IF call.arg.behaviour = "passes"
                THEN "Soft assertion passed: "
                ELSE "Soft assertion failed: ") \o call.arg.message

\* C21: handleElementNotFound: when the selector matches no element, exactly
\* one ElementNotFound record is appended to the error log and the call
\* fails with an error that names the selector; when it matches at least one
\* element, the call returns and the error log is unchanged.
C21_ElementNotFound ==
    [][call'.op = "handleElementNotFound" =>
           IF call'.arg.matches = 0
           THEN /\ Len(errorLog') = Len(errorLog) + 1
                /\ IsPrefix(errorLog, errorLog')
                /\ errorLog'[Len(errorLog')].type = "ElementNotFound"
                /\ call'.outcome = "failed"
                /\ call'.result.t = "Error"
                /\ \E i \in 1 .. Len(call'.result.message) :
                       call'.result.message[i] = call'.arg.selector
           ELSE /\ errorLog' = errorLog
                /\ call'.outcome = "returned"]_vars

\* a selector that matches one element was passed after another one that
\* matches none was logged
C21_Witness ==
    /\ call.op = "handleElementNotFound"
    /\ call.arg.matches = 1
    /\ call.outcome = "returned"
    /\ Len(errorLog) = 1
    /\ errorLog[1].type = "ElementNotFound"

\* C22: generateRandomData returns, for a registered kind, what that kind's
\* generator builds, a text being of the length asked for through options
\* (10 when none is asked for), and for any other kind the string
\* random_<kind>_<timestamp>.
C22_RandomData ==
    call.op = "generateRandomData" =>
        LET kind == call.arg.kind
            now == NumberToString(call.arg.now)
        IN /\ kind = "text" =>
                  /\ call.result.t = "chars"
                  /\ Len(call.result.v) =
                         (IF "length" \in DOMAIN call.arg.options
                          THEN call.arg.options["length"]
                          ELSE DefaultTextLength)
           /\ kind = "email" => call.result = Str("test" \o now \o "@example.com")
           /\ kind = "username" => call.result = Str("user" \o now)
           /\ kind = "password" => call.result = Str("pass" \o now)
           /\ kind = "name" => call.result = Str("Test User " \o now)
           /\ kind = "id" => call.result = Str("ID" \o now)
           /\ kind = "phone" => call.result.t = "string"
           /\ kind \notin RegisteredKinds =>
                  call.result = Str("random_" \o kind \o "_" \o now)

\* the request options the specs pass to apiRequest
CallerOptions ==
    {"method", "url", "headers", "body", "qs", "timeout", "failOnStatusCode"}

TargetsSent == {i \in 1 .. Len(api.sent) : api.sent[i].kind = "target"}
LoginsSent == {i \in 1 .. Len(api.sent) : api.sent[i].kind = "login"}

\* a caller's option is part of a request: its value is the request's,
\* and each caller's header is among the request's headers
Forwarded(options, key, request) ==
    /\ key \in DOMAIN request
    /\ IF key = "headers"
       THEN \A h \in DOMAIN options[key].v :
                /\ h \in DOMAIN request[key].v
                /\ request[key].v[h] = options[key].v[h]
       ELSE request[key] = options[key]

\* C23: every request option the caller passes to apiRequest (method, url,
\* headers, body, qs, timeout, failOnStatusCode) is part of the target
\* request that is issued.
C23_OptionsForwarded ==
    \A i \in TargetsSent :
        \A key \in CallerOptions \cap DOMAIN api.options :
            Forwarded(api.options, key, api.sent[i].options)

\* the same for the options other than qs
C23_AllButQs ==
    \A i \in TargetsSent :
        \A key \in (CallerOptions \ {"qs"}) \cap DOMAIN api.options :
            Forwarded(api.options, key, api.sent[i].options)

C23_QsPassed ==
    /\ TargetsSent # {}
    /\ "qs" \in DOMAIN api.options

Authorization(request) == Get(request["headers"].v, "Authorization")

ListedOrNone == IF call.outcome = "failed" THEN ListedViolations ELSE {}

\* C24: validateTestData reports a required key as missing exactly when the
\* key is absent from data (a present 0 or empty string is not missing), and
\* reports a type mismatch for every present key whose value's type differs
\* from the schema type, falsy values included.
C24_RequiredAndType ==
    call.op = "validateTestData" =>
        LET data == call.arg.data
            schema == call.arg.schema
        IN  \A i \in 1 .. Len(schema) :
                /\ <<"Missing required field", schema[i].key>> \in ListedOrNone
                       <=> /\ schema[i].required
                           /\ schema[i].key \notin DOMAIN data
                /\ <<"Invalid type", schema[i].key>> \in ListedOrNone
                       <=> /\ schema[i].key \in DOMAIN data
                           /\ schema[i].type # NoString
                           /\ TypeOf(data[schema[i].key]) # schema[i].type.v

\* the same for data without falsy values
C24_TruthyData ==
    (/\ call.op = "validateTestData"
     /\ \A k \in DOMAIN call.arg.data : Truthy(call.arg.data[k]))
        => C24_RequiredAndType

\* C26: when an attempt of retryOperation fulfils, the returned promise
\* resolves with that attempt's result, the operation is not invoked again,
\* no retry timer is set and no RetryExhausted record is appended.
C26_SuccessEndsRetrying ==
    /\ [][call'.op = "retryOperation.then" =>
              /\ retry'.outcome = "resolved"
              /\ retry'.value = call'.arg.v
              /\ retry'.invoked = retry.invoked
              /\ retry'.timer = NoTimer
              /\ errorLog' = errorLog]_vars
    /\ [](retry.outcome = "resolved" =>
              /\ retry.pending = {}
              /\ retry.timer = NoTimer
              /\ retry.logged = 0
              /\ retry.trace[Len(retry.trace)].ev = "fulfilled"
              /\ retry.trace[Len(retry.trace)].k = retry.invoked)

\* a second attempt fulfilled after the first was rejected
C26_Witness ==
    /\ retry.outcome = "resolved"
    /\ retry.invoked = 2
    /\ call.op = "retryOperation.then"
    /\ retry.value = call.arg.v

\* C27: on each append the critical-threshold message is emitted when the
\* log length is >= errorThresholds.critical, the warning-threshold message
\* only when the length is >= errorThresholds.warning and < critical; with
\* the default thresholds the warning message is never emitted.
C27_ThresholdEscalation ==
    [][Len(errorLog') = Len(errorLog) + 1 =>
          LET n == Len(errorLog')
              critical == errorThresholds["critical"].v
              warning == errorThresholds["warning"].v
          IN  /\ alert' = "critical" <=> n >= critical
              /\ alert' = "warning" <=> (n >= warning /\ n < critical)
              /\ (critical = DefaultCritical /\ warning = DefaultWarning)
                     => alert' # "warning"]_vars

\* the default thresholds and a log that has reached the warning threshold
C27_Witness ==
    /\ errorThresholds["critical"] = Num(DefaultCritical)
    /\ errorThresholds["warning"] = Num(DefaultWarning)
    /\ Len(errorLog) >= DefaultWarning
    /\ call.op = "handleAssertionError"
    /\ alert = "critical"

\* a warning-threshold message, under thresholds with warning < critical
C27_WarningEmitted ==
    /\ alert = "warning"
    /\ call.op = "handleAssertionError"

RetryCallbacks ==
    RetryCommands \cup {c \o ".then" : c \in RetryCommands}
        \cup {c \o ".catch" : c \in RetryCommands}

\* the time between the rejection of attempt k - 1 and the start of attempt k
WaitBefore(k) ==
    LET start == CHOOSE i \in 1 .. Len(rwl.trace) :
                     rwl.trace[i].ev = "start" /\ rwl.trace[i].k = k
        rejected == CHOOSE i \in 1 .. Len(rwl.trace) :
                        rwl.trace[i].ev = "rejected" /\ rwl.trace[i].k = k - 1
    IN  rwl.trace[start].waited - rwl.trace[rejected].waited

\* fn is invoked at most maxAttempts times, one attempt at a time; the first
\* success ends the retrying; after maxAttempts failures the last error
\* itself is propagated; no record is added to the error log
RetriesBounded ==
    /\ [](/\ rwl.invoked <= rwl.maxAttempts
          /\ Cardinality(rwl.pending) <= 1
          /\ rwl.outcome = "resolved" =>
                 /\ rwl.pending = {}
                 /\ rwl.trace[Len(rwl.trace)].ev = "fulfilled"
          /\ rwl.outcome = "rejected" =>
                 /\ rwl.invoked = rwl.maxAttempts
                 /\ rwl.error = rwl.lastError
                 /\ rwl.trace[Len(rwl.trace)].ev = "rejected")
    /\ [][call'.op \in RetryCallbacks /\ call' # call
              => errorLog' = errorLog]_vars

\* every attempt after the first starts a wait of delay after the
\* rejection of the attempt before it
WaitsBetweenAttempts ==
    \A k \in 2 .. rwl.invoked : WaitBefore(k) >= rwl.delay

\* C28: retryWithLog and assertWithRetry, for maxAttempts >= 1: fn is
\* invoked at most maxAttempts times, attempts are sequential with a wait of
\* delay between them, the first success ends the retrying, and after
\* maxAttempts failures the last error itself is propagated without any
\* record being added to the error log.
C28_RetryWithLog == RetriesBounded /\ []WaitsBetweenAttempts

\* the claim without the wait between attempts
C28_AllButWait == RetriesBounded

C28_Exhausted ==
    /\ rwl.outcome = "rejected"
    /\ rwl.invoked = DefaultMaxAttempts

\* C29: with handleConsoleError installed k >= 1 times on the window, each
\* console.error call of the page appends exactly k ConsoleError records,
\* one per installed wrapper, and calls the original console.error exactly
\* once with the same arguments.
C29_OneRecordPerWrapper ==
    [][(call'.op = "console.error" /\ win.installed >= 1) =>
          LET k == win.installed
              n == Len(errorLog)
          IN  /\ Len(errorLog') = n + k
              /\ SubSeq(errorLog', 1, n) = errorLog
              /\ \A i \in 1 .. k :
                     /\ errorLog'[n + i].type = "ConsoleError"
                     /\ errorLog'[n + i].message = call'.arg.v
                     /\ errorLog'[n + i].context = win.consoleError[k + 1 - i]
              /\ call'.result.original = <<call'.arg.v>>]_vars

\* a console.error call under two installed wrappers
C29_Witness ==
    /\ call.op = "console.error"
    /\ win.installed = MaxWrappers
    /\ Len(errorLog) >= MaxWrappers
    /\ errorLog[Len(errorLog)].type = "ConsoleError"

BatchCount(n, m) == (n + m - 1) \div m

\* C30: the batching loop of monitorConcurrentRequests terminates: for every
\* factory list and every maxConcurrent >= 1 it ends after
\* ceil(length / maxConcurrent) iterations, for the empty list without
\* invoking any factory, and the loop index strictly increases on every
\* iteration.
C30_LoopTerminates ==
    /\ [](conc.pc = "loop" =>
              conc.iterations <= BatchCount(conc.n, conc.maxConcurrent))
    /\ [](conc.pc \in {"queue", "done", "failed"} =>
              /\ conc.iterations = BatchCount(conc.n, conc.maxConcurrent)
              /\ conc.n = 0 => (conc.iterations = 0 /\ conc.batches = <<>>))
    /\ [][conc'.iterations = conc.iterations + 1 => conc'.i > conc.i]_vars
    /\ (conc.pc = "loop") ~> (conc.pc = "queue")

\* five factories with maxConcurrent = 2: the loop has ended after three
\* iterations
C30_Witness ==
    /\ conc.pc = "queue"
    /\ conc.n = 5
    /\ conc.maxConcurrent = 2
    /\ conc.iterations = 3
    /\ conc.i >= conc.n

\* the empty list: the loop has ended and no factory was invoked
C30_EmptyList ==
    /\ conc.pc = "queue"
    /\ conc.n = 0
    /\ conc.iterations = 0

=============================================================================
